---- MODULE Spec2Model ----
(***************************************************************************)
(* State-machine model of GraphApp/app.py: the node and edge tables of the *)
(* PostgreSQL store, the data-access functions that read and write them    *)
(* (each split into its store round trips), and the OAuth token /          *)
(* connection pool state behind get_connection.                            *)
(*                                                                         *)
(* Text values are sequences of one-character strings, so that str.strip   *)
(* is computed rather than assumed.                                        *)
(***************************************************************************)
EXTENDS Integers, Sequences, FiniteSets, TLC

\* ------------------------------------------------------------------ bounds
\* The most rows the two tables hold together.
MaxRows == 4
MaxTime == 2400

Sessions == {1, 2}

\* The characters str.strip() removes (space, tab).
Whitespace == {" ", "\t"}

\* Texts typed into the forms / passed to the functions.
Inputs == { <<"A">>, <<" ", "B", "\t">> }

\* Amounts by which the wall clock advances between calls.
TickSteps == {300, 450, 901}

\* The token age, in seconds, beyond which it is refreshed.
TokenTTL == 900

\* A row's transaction mark: 0 is "committed / not marked", s > 0 is
\* "written by the open transaction of session s".
Committed == 0

\* Result of a dictionary lookup that raises KeyError (ids start at 1).
KeyError == -1

\* postgres_password = None, connection_pool = None
None == -1

VARIABLES
    schema,            \* TRUE once the schema and the two tables exist
    nodes,             \* rows of <schema>.nodes, in heap order
    edges,             \* rows of <schema>.edges, in heap order
    nodes_id_seq,      \* next value of nodes.id's SERIAL sequence
    edges_id_seq,      \* next value of edges.id's SERIAL sequence
    pc,                \* per session: the statement it executes next, or,
                       \* outside a call, how its last call ended
    args,              \* per session: the arguments of the running call
    node_list,         \* per session: add_edge's get_nodes() result
    vertices,          \* per session: display_graph's get_nodes() result
    edge_list,         \* per session: display_graph's get_edges() result
    now,               \* time.time()
    postgres_password, \* the cached token, identified by its issue time
    last_password_refresh,
    connection_pool,   \* None, or the token the pool was built with
    closed,            \* the pools connection_pool.close() was called on
    handed             \* what the last get_connection call returned

storeVars == <<schema, nodes, edges, nodes_id_seq, edges_id_seq>>
sessVars == <<pc, args, node_list, vertices, edge_list>>
connVars ==
    <<now, postgres_password, last_password_refresh, connection_pool, closed, handed>>
vars == <<storeVars, sessVars, connVars>>

\* ------------------------------------------------------------ str.strip()
RECURSIVE lstrip(_)
lstrip(t) ==
    IF t # <<>> /\ Head(t) \in Whitespace THEN lstrip(Tail(t)) ELSE t

RECURSIVE rstrip(_)
rstrip(t) ==
    IF t # <<>> /\ t[Len(t)] \in Whitespace
    THEN rstrip(SubSeq(t, 1, Len(t) - 1))
    ELSE t

strip_left_only(t) == lstrip(t)

strip(t) == rstrip(lstrip(t))

\* ------------------------------------------------------------ Python dict
\* An insertion-ordered dict is a sequence of <<key, value>> with distinct
\* keys: assigning an existing key replaces its value in place.
DictHas(d, k) == \E i \in 1..Len(d) : d[i][1] = k

DictSet(d, k, v) ==
    IF DictHas(d, k)
    THEN [i \in 1..Len(d) |-> IF d[i][1] = k THEN <<k, v>> ELSE d[i]]
    ELSE Append(d, <<k, v>>)

\* dict(get_nodes()): id -> name
RECURSIVE dict(_)
dict(rows) ==
    IF rows = <<>> THEN <<>>
    ELSE LET n == Len(rows)
         IN DictSet(dict(SubSeq(rows, 1, n - 1)), rows[n][1], rows[n][2])

\* {v: k for k, v in node_dict.items()} built keeping the first key seen
RECURSIVE d_swap_first_wins(_)
d_swap_first_wins(node_dict) ==
    IF node_dict = <<>> THEN <<>>
    ELSE LET n == Len(node_dict)
             rest == d_swap_first_wins(SubSeq(node_dict, 1, n - 1))
         IN IF DictHas(rest, node_dict[n][2]) THEN rest
            ELSE Append(rest, <<node_dict[n][2], node_dict[n][1]>>)

\* {v: k for k, v in node_dict.items()}: name -> id
RECURSIVE d_swap(_)
d_swap(node_dict) ==
    IF node_dict = <<>> THEN <<>>
    ELSE LET n == Len(node_dict)
         IN DictSet(d_swap(SubSeq(node_dict, 1, n - 1)),
                    node_dict[n][2], node_dict[n][1])

DictGet_default(d, k) ==
    IF DictHas(d, k) THEN d[CHOOSE i \in 1..Len(d) : d[i][1] = k][2] ELSE 0

\* d[k]; KeyError when k is no key of d
DictGet(d, k) ==
    IF DictHas(d, k) THEN d[CHOOSE i \in 1..Len(d) : d[i][1] = k][2] ELSE KeyError

\* cur.execute parameters of add_edge's INSERT, given in the wrong order
EdgeParams_swapped(sw, start, end) ==
    <<DictGet(sw, strip(end)), DictGet(sw, strip(start))>>

\* (d_swap[start.strip()], d_swap[end.strip()],)
EdgeParams(sw, start, end) ==
    <<DictGet(sw, strip(start)), DictGet(sw, strip(end))>>

\* --------------------------------------------------------------- the store
\* The columns CREATE TABLE gives the edges table.
EdgeColumns == {"id", "start_node", "end_node", "name"}

\* The columns the WHERE clause of the two DELETE FROM edges statements names.
DeleteEdgesWhereColumns == {"start", "end_node"}

\* SELECT id, name FROM nodes that also sees rows not committed yet
GetNodes_dirty == [i \in 1..Len(nodes) |-> <<nodes[i].id, nodes[i].name>>]

\* SELECT id, name FROM nodes: the committed rows, in heap order
GetNodes ==
    LET vis == SelectSeq(nodes, LAMBDA r : r.ins = Committed)
    IN [i \in 1..Len(vis) |-> <<vis[i].id, vis[i].name>>]

\* SELECT start_node, end_node FROM edges
GetEdges ==
    LET vis == SelectSeq(edges, LAMBDA r : r.ins = Committed)
    IN [i \in 1..Len(vis) |-> <<vis[i].start_node, vis[i].end_node>>]

\* conn.commit(): the rows session s inserted become visible, the rows it
\* deleted go away.
CommitRows(rows, s) ==
    LET kept == SelectSeq(rows, LAMBDA r : r.del # s)
    IN [i \in 1..Len(kept) |->
           IF kept[i].ins = s THEN [kept[i] EXCEPT !.ins = Committed] ELSE kept[i]]

\* rollback on leaving "with get_connection() as conn" by an exception: the
\* rows session s inserted go away, its delete marks are dropped.
RollbackRows(rows, s) ==
    LET kept == SelectSeq(rows, LAMBDA r : r.ins # s)
    IN [i \in 1..Len(kept) |->
           IF kept[i].del = s THEN [kept[i] EXCEPT !.del = Committed] ELSE kept[i]]

\* f is the function called, a and b its text arguments, i and j its ids.
NoArgs == [f |-> "", a |-> <<>>, b |-> <<>>, i |-> 0, j |-> 0]

Init ==
    /\ schema = FALSE
    /\ nodes = <<>>
    /\ edges = <<>>
    /\ nodes_id_seq = 1
    /\ edges_id_seq = 1
    /\ pc = [s \in Sessions |-> "idle"]
    /\ args = [s \in Sessions |-> NoArgs]
    /\ node_list = [s \in Sessions |-> <<>>]
    /\ vertices = [s \in Sessions |-> <<>>]
    /\ edge_list = [s \in Sessions |-> <<>>]
    /\ now = 0
    /\ postgres_password = None
    /\ last_password_refresh = 0
    /\ connection_pool = None
    /\ closed = {}
    /\ handed = None

\* The names delete_node is called with (it does not strip its argument).
DeleteNames == {strip(t) : t \in Inputs}

\* Ids delete_edge is called with.
Ids == {1, 2}

\* The rows in the two tables, and those add_edge calls under way may add.
Rows == Len(nodes) + Len(edges) + Cardinality({t \in Sessions : pc[t] = "ae_insert"})

\* The pc values of a session that is not inside a call: "idle" (at first,
\* and after a call that returned), "snapshot" (display_graph returned what
\* it read), "True" (init_database returned True) or the exception its
\* last call raised.
Outcomes ==
    {"idle", "True", "snapshot", "KeyError", "UndefinedTable", "UndefinedColumn",
     "InvalidTextRepresentation"}

\* Session s enters a function; what display_graph returned to it earlier
\* is dropped.
Begin(s) ==
    /\ pc[s] \in Outcomes
    /\ vertices' = [vertices EXCEPT ![s] = <<>>]
    /\ edge_list' = [edge_list EXCEPT ![s] = <<>>]

\* Session s goes on to its next statement.
Goto(s, label) == pc' = [pc EXCEPT ![s] = label]

\* The call returns, or its exception leaves the function: the arguments and
\* add_edge's locals are gone.
Finish(s, how) ==
    /\ pc' = [pc EXCEPT ![s] = how]
    /\ args' = [args EXCEPT ![s] = NoArgs]
    /\ node_list' = [node_list EXCEPT ![s] = <<>>]

\* A statement on a table that init_database has not created yet fails.
UndefinedTable(s) ==
    /\ ~schema
    /\ Begin(s)
    /\ Finish(s, "UndefinedTable")
    /\ UNCHANGED <<storeVars, connVars>>

\* ---------------------------------------------------------- init_database
\* What the three CREATE ... IF NOT EXISTS statements and the commit leave,
\* had the two "drop table if exists" lines not been commented out.
InitDatabaseStore_dropping == <<TRUE, <<>>, <<>>, 1, 1>>

\* What the three CREATE ... IF NOT EXISTS statements and the commit leave:
\* <<schema, nodes, edges, nodes_id_seq, edges_id_seq>>.
InitDatabaseStore ==
    IF schema
    THEN <<schema, nodes, edges, nodes_id_seq, edges_id_seq>>
    ELSE <<TRUE, <<>>, <<>>, 1, 1>>

InitDatabase(s) ==
    /\ Begin(s)
    /\ schema' = InitDatabaseStore[1]
    /\ nodes' = InitDatabaseStore[2]
    /\ edges' = InitDatabaseStore[3]
    /\ nodes_id_seq' = InitDatabaseStore[4]
    /\ edges_id_seq' = InitDatabaseStore[5]
    /\ Finish(s, "True")
    /\ UNCHANGED connVars

\* ------------------------------------------------------------ conn.commit()
Commit(s) ==
    /\ pc[s] = "commit"
    /\ nodes' = CommitRows(nodes, s)
    /\ edges' = CommitRows(edges, s)
    /\ Finish(s, "idle")
    /\ UNCHANGED <<schema, nodes_id_seq, edges_id_seq, vertices, edge_list, connVars>>

\* ---------------------------------------------------------------- add_node
\* Called (main calls it only with a text whose strip() is not empty), it
\* executes its INSERT.
AnInsert(s, node) ==
    /\ strip(node) # <<>>
    /\ Rows < MaxRows
    /\ schema
    /\ Begin(s)
    /\ nodes' = Append(nodes, [id |-> nodes_id_seq, name |-> strip(node),
                               ins |-> s, del |-> Committed])
    /\ nodes_id_seq' = nodes_id_seq + 1
    /\ Goto(s, "commit")
    /\ args' = [args EXCEPT ![s] = [NoArgs EXCEPT !.f = "add_node", !.a = node]]
    /\ UNCHANGED <<schema, edges, edges_id_seq, node_list, connVars>>

\* ---------------------------------------------------------------- add_edge
\* Called (main calls it only with texts whose strip() is not empty), it
\* reads the node list.
AeGetNodes(s, start, end) ==
    /\ strip(start) # <<>> /\ strip(end) # <<>>
    /\ Rows < MaxRows
    /\ schema
    /\ Begin(s)
    /\ node_list' = [node_list EXCEPT ![s] = GetNodes]
    /\ Goto(s, "ae_insert")
    /\ args' = [args EXCEPT ![s] = [NoArgs EXCEPT !.f = "add_edge", !.a = start, !.b = end]]
    /\ UNCHANGED <<storeVars, connVars>>

AeInsert(s) ==
    /\ pc[s] = "ae_insert"
    /\ LET sw == d_swap(dict(node_list[s]))
           params == EdgeParams(sw, args[s].a, args[s].b)
       IN IF params[1] = KeyError \/ params[2] = KeyError
          THEN /\ Finish(s, "KeyError")
               /\ UNCHANGED <<edges, edges_id_seq>>
          ELSE /\ edges' = Append(edges, [id |-> edges_id_seq,
                                          start_node |-> params[1],
                                          end_node |-> params[2],
                                          ins |-> s, del |-> Committed])
               /\ edges_id_seq' = edges_id_seq + 1
               /\ Goto(s, "commit")
               /\ UNCHANGED <<args, node_list>>
    /\ UNCHANGED <<schema, nodes, nodes_id_seq, vertices, edge_list, connVars>>

\* -------------------------------------------------------------- delete_edge
\* DELETE FROM edges WHERE start = %s and end_node = %s
DeDelete(s, start, end) ==
    /\ schema
    /\ Begin(s)
    /\ IF DeleteEdgesWhereColumns \subseteq EdgeColumns
       THEN /\ edges' = [k \in 1..Len(edges) |->
                           IF /\ edges[k].ins = Committed
                              /\ edges[k].start_node = start
                              /\ edges[k].end_node = end
                           THEN [edges[k] EXCEPT !.del = s] ELSE edges[k]]
            /\ Goto(s, "commit")
            /\ args' = [args EXCEPT ![s] = [NoArgs EXCEPT !.f = "delete_edge", !.i = start, !.j = end]]
            /\ UNCHANGED node_list
       ELSE /\ edges' = RollbackRows(edges, s)
            /\ Finish(s, "UndefinedColumn")
    /\ UNCHANGED <<schema, nodes, nodes_id_seq, edges_id_seq, connVars>>

\* -------------------------------------------------------------- delete_node
\* DELETE FROM nodes WHERE name = %s; waits while another open transaction
\* holds the lock of a row it has to delete.
DnDeleteNodes(s, node_id) ==
    /\ schema
    /\ Begin(s)
    /\ \A k \in 1..Len(nodes) :
           (nodes[k].ins = Committed /\ nodes[k].name = node_id)
               => nodes[k].del = Committed
    /\ nodes' = [k \in 1..Len(nodes) |->
                    IF nodes[k].ins = Committed /\ nodes[k].name = node_id
                    THEN [nodes[k] EXCEPT !.del = s] ELSE nodes[k]]
    /\ Goto(s, "dn_delete_edges")
    /\ args' = [args EXCEPT ![s] = [NoArgs EXCEPT !.f = "delete_node", !.a = node_id]]
    /\ UNCHANGED <<schema, edges, nodes_id_seq, edges_id_seq, node_list, connVars>>

\* The second statement's error is swallowed and the call goes on to commit.
DnDeleteEdges_ignoring_error(s) ==
    /\ pc[s] = "dn_delete_edges"
    /\ Goto(s, "commit")
    /\ UNCHANGED <<storeVars, args, node_list, vertices, edge_list, connVars>>

\* DELETE FROM edges WHERE start = %s OR end_node = %s: the statement names
\* a column the table does not have (and compares integer columns with the
\* text it was given), so it raises and the transaction is rolled back.
DnDeleteEdges(s) ==
    /\ pc[s] = "dn_delete_edges"
    /\ nodes' = RollbackRows(nodes, s)
    /\ edges' = RollbackRows(edges, s)
    /\ Finish(s, IF DeleteEdgesWhereColumns \subseteq EdgeColumns
                 THEN "InvalidTextRepresentation" ELSE "UndefinedColumn")
    /\ UNCHANGED <<schema, nodes_id_seq, edges_id_seq, vertices, edge_list, connVars>>

\* ------------------------------------------------------------ display_graph
DgGetNodes(s) ==
    /\ schema
    /\ pc[s] \in Outcomes
    /\ vertices' = [vertices EXCEPT ![s] = GetNodes]
    /\ edge_list' = [edge_list EXCEPT ![s] = <<>>]
    /\ Goto(s, "dg_get_edges")
    /\ UNCHANGED <<storeVars, args, node_list, connVars>>

DgGetEdges(s) ==
    /\ pc[s] = "dg_get_edges"
    /\ edge_list' = [edge_list EXCEPT ![s] = GetEdges]
    /\ Finish(s, "snapshot")
    /\ UNCHANGED <<storeVars, vertices, connVars>>

Next ==
    \E s \in Sessions :
        \/ InitDatabase(s)
        \/ UndefinedTable(s)
        \/ \E node \in Inputs : AnInsert(s, node)
        \/ \E start \in Inputs, end \in Inputs : AeGetNodes(s, start, end)
        \/ AeInsert(s)
        \/ Commit(s)
        \/ \E start \in Ids, end \in Ids : DeDelete(s, start, end)
        \/ \E node_id \in DeleteNames : DnDeleteNodes(s, node_id)
        \/ DnDeleteEdges(s)
        \/ DgGetNodes(s)
        \/ DgGetEdges(s)

Spec == Init /\ [][Next]_vars

\* ------------------------------------------- token and connection pool
\* postgres_password is None or time.time() - last_password_refresh > 900
TokenExpired ==
    postgres_password = None \/ now - last_password_refresh > TokenTTL

\* get_connection without its "Recreate pool if token expired" block
PoolAfterExpiryCheck_keeping == connection_pool

\* get_connection, lines 53-56: an expired token closes and drops the pool
PoolAfterExpiryCheck == IF TokenExpired THEN None ELSE connection_pool

\* get_connection: get_connection_pool builds a pool only when there is
\* none, after refresh_oauth_token, which fetches a token only when the
\* cached one is absent or expired; a failed fetch ends in st.stop().
\* fetch_ok is whether workspace_client hands out a token when asked.
GetConnection(fetch_ok) ==
    LET pool == PoolAfterExpiryCheck
        fetch == pool = None /\ TokenExpired
        stopped == fetch /\ ~fetch_ok
        password == IF fetch /\ fetch_ok THEN now ELSE postgres_password
    IN /\ postgres_password' = password
       /\ last_password_refresh' =
              IF fetch /\ fetch_ok THEN now ELSE last_password_refresh
       /\ connection_pool' =
              IF stopped THEN None ELSE IF pool = None THEN password ELSE pool
       /\ closed' = IF pool = None /\ connection_pool # None
                    THEN closed \cup {connection_pool} ELSE closed
       /\ handed' = IF stopped THEN None ELSE connection_pool'
       /\ UNCHANGED <<now, storeVars, sessVars>>

\* Time passes; the connection handed out before has gone back to its pool.
Tick(d) ==
    /\ now + d <= MaxTime
    /\ now' = now + d
    /\ handed' = None
    /\ UNCHANGED <<postgres_password, last_password_refresh, connection_pool,
                   closed, storeVars, sessVars>>

NextConn ==
    \/ \E fetch_ok \in BOOLEAN : GetConnection(fetch_ok)
    \/ \E d \in TickSteps : Tick(d)

SpecConn == Init /\ [][NextConn]_vars

\* C8: a connection get_connection hands out comes from a pool built with a
\* token fetched at most 900 seconds before, never from a closed pool; a
\* call that finds the token absent or expired closes the pool there is,
\* and either fetches a token and builds the pool with it, or, the fetch
\* failing, builds no pool and hands out nothing.
C8_PoolTokenIsFresh ==
    [][(\E fetch_ok \in BOOLEAN : GetConnection(fetch_ok)) =>
          /\ handed' # None =>
                 /\ handed' = connection_pool'
                 /\ handed' \notin closed'
                 /\ now - handed' <= TokenTTL
          /\ TokenExpired =>
                 /\ connection_pool # None => connection_pool \in closed'
                 /\ \/ /\ postgres_password' = now
                       /\ last_password_refresh' = now
                       /\ connection_pool' = now
                       /\ handed' = now
                    \/ /\ postgres_password' = postgres_password
                       /\ connection_pool' = None
                       /\ handed' = None]_vars

\* A connection is handed out from a pool built a moment ago, after the
\* pool built with the expired token was closed.
C8_Witness ==
    /\ closed # {}
    /\ handed = now
    /\ connection_pool = now

\* ================================================================ properties
Range(seq) == {seq[k] : k \in 1..Len(seq)}

\* seq with x put in before position k
InsertAt(seq, k, x) == SubSeq(seq, 1, k - 1) \o <<x>> \o SubSeq(seq, k, Len(seq))

\* name is input without its leading and trailing whitespace
Trimmed(input, name) ==
    \E i \in 0..Len(input) : \E j \in i..Len(input) :
        /\ name = SubSeq(input, i + 1, j)
        /\ \A k \in 1..i : input[k] \in Whitespace
        /\ \A k \in (j + 1)..Len(input) : input[k] \in Whitespace
        /\ name # <<>> => (name[1] \notin Whitespace /\ name[Len(name)] \notin Whitespace)

CommittedNodes == {n \in Range(nodes) : n.ins = Committed}

CommittedNodeIds == {n.id : n \in CommittedNodes}

\* C1: when add_node(input) commits, get_nodes() returns the rows it returned
\* before plus exactly one new row, whose name is input without its leading
\* and trailing whitespace and whose id is none of the ids returned before;
\* the edges table is unchanged.
C1_AddNodeAddsOneTrimmedRow ==
    [][\A s \in Sessions :
          (Commit(s) /\ args[s].f = "add_node") =>
              /\ \E k \in 1..(Len(GetNodes) + 1) : \E row \in Range(GetNodes') :
                     /\ GetNodes' = InsertAt(GetNodes, k, row)
                     /\ Trimmed(args[s].a, row[2])
                     /\ row[2] # <<>>
                     /\ \A old \in Range(GetNodes) : old[1] # row[1]
              /\ edges' = edges]_vars

\* add_node has committed a row whose name had whitespace to lose, next to
\* an earlier row.
C1_Witness ==
    /\ Len(GetNodes) >= 2
    /\ GetNodes[Len(GetNodes)][2] = <<"B">>
    /\ \A s \in Sessions : pc[s] = "idle"

DistinctNames(rows) ==
    \A k, m \in 1..Len(rows) : rows[k][2] = rows[m][2] => k = m

NameIn(rows, name) == \E r \in Range(rows) : r[2] = name

\* the id the rows report for a name that exactly one of them carries
IdOf(rows, name) == (CHOOSE r \in Range(rows) : r[2] = name)[1]

\* C2: when the node list add_edge(start, end) read has pairwise distinct
\* names and holds both names, the call raises nothing and, when it commits,
\* get_edges() returns the pairs it returned before plus exactly the one pair
\* (id of start, id of end) of the ids that node list reports.
C2_AddEdgeAddsResolvedPair ==
    [][\A s \in Sessions :
          LET rows == node_list[s]
              start == strip(args[s].a)
              end == strip(args[s].b)
              applies == /\ args[s].f = "add_edge"
                         /\ DistinctNames(rows)
                         /\ NameIn(rows, start) /\ NameIn(rows, end)
          IN /\ (AeInsert(s) /\ applies) => pc'[s] = "commit"
             /\ (Commit(s) /\ applies) =>
                    /\ \E k \in 1..(Len(GetEdges) + 1) :
                           GetEdges' = InsertAt(GetEdges, k,
                                                <<IdOf(rows, start), IdOf(rows, end)>>)
                    /\ GetNodes' = GetNodes]_vars

\* The scenario of the specification: nodes A = 1 and B = 2, then
\* add_edge(A, B) has committed and the edge list is [(1, 2)].
C2_Witness ==
    /\ GetNodes = << <<1, <<"A">> >>, <<2, <<"B">> >> >>
    /\ GetEdges = << <<1, 2>> >>
    /\ \A s \in Sessions : pc[s] = "idle"

\* C3: when the start name or the end name matches no row of the node list
\* add_edge read, the call ends in KeyError and inserts nothing: the two
\* tables are as they were.
C3_UnknownNameInsertsNothing ==
    [][\A s \in Sessions :
          (/\ AeInsert(s)
           /\ \/ ~NameIn(node_list[s], strip(args[s].a))
              \/ ~NameIn(node_list[s], strip(args[s].b)))
          => (pc'[s] = "KeyError" /\ nodes' = nodes /\ edges' = edges)]_vars

\* add_edge has ended in KeyError although the node list was not empty
\* (one of its names resolved, or neither did).
C3_Witness ==
    \E s \in Sessions : pc[s] = "KeyError" /\ Len(GetNodes) > 0 /\ Len(edges) = 0

\* C4: when delete_node(name) ends, for a name some committed node carries,
\* get_nodes() has no row with that name and get_edges() no pair with the
\* id of such a row as start or end; the other rows are still there.
C4_DeleteNodeRemovesNodeAndItsEdges ==
    [][\A s \in Sessions :
          (DnDeleteEdges(s) /\ NameIn(GetNodes, args[s].a)) =>
              LET gone == {r \in Range(GetNodes) : r[2] = args[s].a}
                  goneIds == {r[1] : r \in gone}
              IN /\ Range(GetNodes') = Range(GetNodes) \ gone
                 /\ Range(GetEdges') =
                        {e \in Range(GetEdges) : e[1] \notin goneIds /\ e[2] \notin goneIds}]_vars

\* C5: after delete_edge(start, end), get_edges() returns no pair
\* (start, end), every other pair it returned before is still there, and so
\* is every node row.
C5_DeleteEdgeRemovesThePair ==
    [][\A s \in Sessions : \A start \in Ids, end \in Ids :
          DeDelete(s, start, end) =>
              /\ Range(GetEdges') = Range(GetEdges) \ {<<start, end>>}
              /\ GetNodes' = GetNodes]_vars

\* C6: init_database creates the schema with two empty tables when it is
\* absent, and is a no-op otherwise: rows and id sequences are left as they
\* were, so that the id an INSERT draws afterwards is above every id drawn
\* before.
C6_InitDatabaseIdempotent ==
    [][/\ \A s \in Sessions :
              InitDatabase(s) =>
                  IF schema
                  THEN UNCHANGED storeVars
                  ELSE /\ schema' /\ nodes' = <<>> /\ edges' = <<>>
                       /\ nodes_id_seq' = 1 /\ edges_id_seq' = 1
       /\ nodes_id_seq' >= nodes_id_seq
       /\ \A r \in Range(nodes') : r.id < nodes_id_seq']_vars

\* The last call of every session was init_database, and it found rows
\* in the nodes table.
C6_Witness ==
    /\ \A s \in Sessions : pc[s] = "True"
    /\ Len(GetNodes) > 0

\* C7: every row of the edges table has a start_node and an end_node that
\* are ids of rows of the nodes table.
C7_NoDanglingEdge ==
    \A e \in Range(edges) :
        e.start_node \in CommittedNodeIds /\ e.end_node \in CommittedNodeIds

\* delete_node is between its two statements, having marked for deletion a
\* node that an edge (committed, or being inserted by the other session)
\* starts or ends at.
C7_Witness ==
    \E s \in Sessions : \E n \in Range(nodes) : \E e \in Range(edges) :
        /\ pc[s] = "dn_delete_edges"
        /\ n.del = s
        /\ (e.start_node = n.id \/ e.end_node = n.id)

\* the id of the last of the rows that carries the name
LastIdOf(rows, name) ==
    rows[CHOOSE k \in 1..Len(rows) :
             /\ rows[k][2] = name
             /\ \A m \in (k + 1)..Len(rows) : rows[m][2] # name][1]

\* C9: the ids add_edge inserts are, for each of its two names, the id of
\* the last row with that name in the node list it read (also when several
\* rows carry the name).
C9_LastRowWithTheNameWins ==
    [][\A s \in Sessions :
          (AeInsert(s) /\ pc'[s] = "commit") =>
              LET new == edges'[Len(edges')]
              IN /\ new.start_node = LastIdOf(node_list[s], strip(args[s].a))
                 /\ new.end_node = LastIdOf(node_list[s], strip(args[s].b))]_vars

\* add_edge has inserted an edge for a name that two rows of the node list
\* it read carry.
C9_Witness ==
    \E s \in Sessions :
        /\ pc[s] = "commit" /\ args[s].f = "add_edge"
        /\ \E k, m \in 1..Len(node_list[s]) :
               /\ k < m
               /\ node_list[s][k][2] = strip(args[s].a)
               /\ node_list[s][m][2] = strip(args[s].a)
               /\ \E e \in Range(edges) : e.ins = s /\ e.start_node = node_list[s][m][1]

\* C10: what display_graph returns is read in two round trips: its node
\* rows are rows the store holds, and every endpoint of its edge pairs is
\* the id of a node the store holds, so an endpoint missing from its own
\* node rows is a node committed after they were read.
C10_SnapshotFromTheStore ==
    \A s \in Sessions :
        pc[s] = "snapshot" =>
            /\ Range(vertices[s]) \subseteq {<<n.id, n.name>> : n \in CommittedNodes}
            /\ \A e \in Range(edge_list[s]) :
                   e[1] \in CommittedNodeIds /\ e[2] \in CommittedNodeIds

\* display_graph has returned an edge pair with an endpoint that none of
\* the node rows it returned has as id.
C10_Witness ==
    \E s \in Sessions :
        /\ pc[s] = "snapshot"
        /\ \E e \in Range(edge_list[s]) :
               \E x \in {e[1], e[2]} : \A r \in Range(vertices[s]) : r[1] # x

====
